---------------------------- MODULE Spec2Model ----------------------------
(***************************************************************************)
(* A model of commonmeta-rs: the Crockford base32 codec with its ISO 7064  *)
(* MOD 97-10 checksum (src/src/crockford.rs), the identifier recognizers   *)
(* and the decode dispatcher (src/src/utils.rs, src/src/doiutils.rs).      *)
(*                                                                         *)
(* Strings are sequences of characters, a character being a one-element    *)
(* TLA+ string; the two characters outside ASCII that the model uses are   *)
(* named by their code point ("U+00E9", "U+0663") and carry their UTF-8    *)
(* byte length, because the code slices strings at byte offsets.           *)
(*                                                                         *)
(* An i64 is a tuple of four 16-bit limbs, least significant first, in     *)
(* two's complement, so that 64-bit overflow is computed, not assumed.     *)
(***************************************************************************)
EXTENDS Integers, Sequences, FiniteSets, TLC

VARIABLES
    overflow_checks,  \* the build: TRUE panics on integer overflow (debug), FALSE wraps (release)
    pc,               \* which call has just returned
    number,           \* encode's argument `number`
    split_every,      \* encode's argument `split_every`
    length,           \* encode's argument `length`
    checksum,         \* the `checksum` flag given to encode and decode
    orig,             \* the string encode returned
    text,             \* the string handed to decode
    id,               \* the raw identifier handed to validate_id / decode_id
    identifier,       \* validate_id's canonical identifier
    identifier_type,  \* validate_id's type tag
    result            \* the value the last call returned

vars == <<overflow_checks, pc, number, split_every, length, checksum, orig, text,
          id, identifier, identifier_type, result>>

---------------------------------------------------------------------------
(* Bounds of the model                                                     *)

\* encode is called with every number 0..MaxNumber (and the sample numbers below)
MaxNumber == 40
\* encode is called with split_every in 0..MaxSplit
MaxSplit == 2
\* encode is called with length in 0..MaxLength
MaxLength == 4
\* generate is called with length in 0..MaxGenerateLength
MaxGenerateLength == 14
\* normalize is called with every string of at most MaxNormalizeLen characters
MaxNormalizeLen == 3

---------------------------------------------------------------------------
(* Characters and strings                                                  *)

Digit == {"0", "1", "2", "3", "4", "5", "6", "7", "8", "9"}
DigitSeq == <<"0", "1", "2", "3", "4", "5", "6", "7", "8", "9">>
LowerSeq == <<"a", "b", "c", "d", "e", "f", "g", "h", "i", "j", "k", "l", "m",
              "n", "o", "p", "q", "r", "s", "t", "u", "v", "w", "x", "y", "z">>
UpperSeq == <<"A", "B", "C", "D", "E", "F", "G", "H", "I", "J", "K", "L", "M",
              "N", "O", "P", "Q", "R", "S", "T", "U", "V", "W", "X", "Y", "Z">>
Lower == {LowerSeq[i] : i \in 1..Len(LowerSeq)}
Upper == {UpperSeq[i] : i \in 1..Len(UpperSeq)}

\* Characters whose UTF-8 encoding takes two bytes: e-acute, and the
\* Arabic-Indic digit three (a Unicode decimal digit that is not ASCII).
TwoByteChars == {"U+00E9", "U+0663"}
ByteLen(c) == IF c \in TwoByteChars THEN 2 ELSE 1

RECURSIVE StrByteLen(_)
StrByteLen(s) == IF s = <<>> THEN 0 ELSE ByteLen(Head(s)) + StrByteLen(Tail(s))

\* The index of c in the sequence q, 0 when c is not in it.
IndexOf(q, c) == IF \E i \in 1..Len(q) : q[i] = c
                 THEN CHOOSE i \in 1..Len(q) : q[i] = c
                 ELSE 0

\* char::to_lowercase on the characters of the model
ToLower(c) == IF c \in Upper THEN LowerSeq[IndexOf(UpperSeq, c)] ELSE c

\* str::to_lowercase
ToLowercase(s) == [i \in 1..Len(s) |-> ToLower(s[i])]

\* str::replace(c, "")
RECURSIVE RemoveChar(_, _)
RemoveChar(s, c) ==
    IF s = <<>> THEN <<>>
    ELSE IF Head(s) = c THEN RemoveChar(Tail(s), c)
    ELSE <<Head(s)>> \o RemoveChar(Tail(s), c)

\* str::replace(a, b) for single characters a and b
ReplaceChar(s, a, b) == [i \in 1..Len(s) |-> IF s[i] = a THEN b ELSE s[i]]

\* The decimal digits of a natural number, most significant first.
RECURSIVE DecStr(_)
DecStr(v) == IF v < 10 THEN <<DigitSeq[v + 1]>>
             ELSE DecStr(v \div 10) \o <<DigitSeq[(v % 10) + 1]>>

\* format!("{:02}", v) for v >= 0: at least two digits, zero padded.
Format02(v) == IF v < 10 THEN <<"0">> \o DecStr(v) ELSE DecStr(v)

---------------------------------------------------------------------------
(* 64-bit signed integers                                                  *)

Base == 2^16
SignLimb == 2^15

I64Zero == <<0, 0, 0, 0>>
\* The i64 of a natural number below 2^31.
I64FromNat(n) == <<n % Base, (n \div Base) % Base, 0, 0>>
I64IsNeg(x) == x[4] >= SignLimb
I64IsZero(x) == x = I64Zero
I64Max == <<Base - 1, Base - 1, Base - 1, SignLimb - 1>>

\* x * k for a small k >= 0, on the bit pattern of x: the low 64 bits
\* (val) and what was carried out of them (carry).
MulSmall(x, k) ==
    LET p1 == x[1] * k
        p2 == x[2] * k + (p1 \div Base)
        p3 == x[3] * k + (p2 \div Base)
        p4 == x[4] * k + (p3 \div Base)
    IN  [val |-> <<p1 % Base, p2 % Base, p3 % Base, p4 % Base>>,
         carry |-> p4 \div Base]

\* x + d for a small d >= 0, on the bit pattern of x.
AddSmall(x, d) ==
    LET s1 == x[1] + d
        s2 == x[2] + (s1 \div Base)
        s3 == x[3] + (s2 \div Base)
        s4 == x[4] + (s3 \div Base)
    IN  [val |-> <<s1 % Base, s2 % Base, s3 % Base, s4 % Base>>,
         carry |-> s4 \div Base]

\* Whether x * k (x >= 0, k >= 0) leaves the range of i64.
MulOverflows(x, k) ==
    LET m == MulSmall(x, k) IN m.carry # 0 \/ I64IsNeg(m.val)

\* Whether x + d (x >= 0, d >= 0) leaves the range of i64.
AddOverflows(x, d) ==
    LET a == AddSmall(x, d) IN a.carry # 0 \/ I64IsNeg(a.val)

\* The 64-bit pattern read as an unsigned number, divided by a small k:
\* quotient and remainder.
DivModSmall(x, k) ==
    LET t4 == x[4]
        t3 == (t4 % k) * Base + x[3]
        t2 == (t3 % k) * Base + x[2]
        t1 == (t2 % k) * Base + x[1]
    IN  [quot |-> <<t1 \div k, t2 \div k, t3 \div k, t4 \div k>>,
         rem |-> t1 % k]

\* Two's complement negation of the bit pattern.
I64Neg(x) ==
    AddSmall(<<Base - 1 - x[1], Base - 1 - x[2], Base - 1 - x[3], Base - 1 - x[4]>>, 1).val

\* Rust's x % k on i64 (k > 0): the remainder has the sign of x.
I64Rem(x, k) ==
    IF I64IsNeg(x) THEN 0 - DivModSmall(I64Neg(x), k).rem
    ELSE DivModSmall(x, k).rem

---------------------------------------------------------------------------
(* src/src/crockford.rs                                                    *)

\* NO i, l, o or u
ENCODING_CHARS ==
    <<"0", "1", "2", "3", "4", "5", "6", "7", "8", "9", "a", "b", "c", "d", "e", "f",
      "g", "h", "j", "k", "m", "n", "p", "q", "r", "s", "t", "v", "w", "x", "y", "z">>

\* The modulus of ISO 7064 MOD 97-10.
Modulus == 97

\* A checksum that was computed, or the panic of the overflowing multiplication.
CsOk(v) == [panic |-> FALSE, val |-> v]
CsPanic == [panic |-> TRUE, val |-> 0]

\* The same, with the "+ 1" left out.
generate_checksum_no_increment(n) ==
    IF overflow_checks /\ MulOverflows(n, 100) THEN CsPanic
    ELSE CsOk(Modulus - I64Rem(MulSmall(n, 100).val, Modulus))

\* 97 - ((100 * number) % 97) + 1 in i64 arithmetic (number >= 0): the
\* multiplication panics under overflow checks and wraps without them.
generate_checksum(n) ==
    IF overflow_checks /\ MulOverflows(n, 100) THEN CsPanic
    ELSE CsOk(Modulus - I64Rem(MulSmall(n, 100).val, Modulus) + 1)

\* validate(number, checksum): checksum == generate_checksum(number)
validate(n, cs) ==
    LET g == generate_checksum(n)
    IN  IF g.panic THEN CsPanic ELSE CsOk(IF cs = g.val THEN 1 ELSE 0)

\* The while loop of encode: the base-32 digits of num > 0, most significant first.
RECURSIVE EncodeDigits(_)
EncodeDigits(num) ==
    IF I64IsNeg(num) \/ I64IsZero(num) THEN <<>>
    ELSE LET dm == DivModSmall(num, 32)
         IN  EncodeDigits(dm.quot) \o <<ENCODING_CHARS[dm.rem + 1]>>

\* "0".repeat(n)
RECURSIVE Zeros(_)
Zeros(n) == IF n <= 0 THEN <<>> ELSE <<"0">> \o Zeros(n - 1)

\* The split loop of encode: a '-' before every chunk of `every` characters but the first.
RECURSIVE SplitEvery(_, _)
SplitEvery(s, every) ==
    IF Len(s) <= every THEN s
    ELSE SubSeq(s, 1, every) \o <<"-">> \o SplitEvery(SubSeq(s, every + 1, Len(s)), every)

\* A string that was returned, or a panic.
StrOk(s) == [panic |-> FALSE, str |-> s]
StrPanic == [panic |-> TRUE, str |-> <<>>]

encode(n, every, len, cs) ==
    LET encoded == IF I64IsZero(n) THEN <<"0">> ELSE EncodeDigits(n)
        target == IF cs /\ len > 2 THEN len - 2 ELSE len
        padded == IF target > 0 /\ Len(encoded) < target
                  THEN Zeros(target - Len(encoded)) \o encoded
                  ELSE encoded
        computed_checksum == generate_checksum(n)
        suffixed == IF cs THEN padded \o Format02(computed_checksum.val) ELSE padded
    IN  IF cs /\ computed_checksum.panic THEN StrPanic
        ELSE StrOk(IF every > 0 THEN SplitEvery(suffixed, every) ELSE suffixed)

\* a < b, for two numbers that are not negative
I64Less(a, b) == \E i \in 1..4 : a[i] < b[i] /\ \A j \in (i + 1)..4 : a[j] = b[j]

\* (32_f64).powi(len), for the powers below 2^63
RECURSIVE Powi32(_)
Powi32(len) == IF len = 0 THEN I64FromNat(1) ELSE MulSmall(Powi32(len - 1), 32).val

\* The end of the range the number is drawn from:
\* n.min(i64::MAX as f64) as i64, a cast that saturates at i64::MAX.
DrawEnd(len) == IF len >= 13 THEN I64Max ELSE Powi32(len)

\* generate, for the number that gen_range draws
generate(len, every, cs, drawn) ==
    IF cs /\ len < 3 THEN StrPanic
    ELSE encode(drawn, every, IF cs THEN len - 2 ELSE len, cs)

\* The same, removing only the first '-'.
RECURSIVE RemoveFirst(_, _)
RemoveFirst(s, c) ==
    IF s = <<>> THEN <<>>
    ELSE IF Head(s) = c THEN Tail(s)
    ELSE <<Head(s)>> \o RemoveFirst(Tail(s), c)

normalize_first_hyphen_only(s) ==
    ReplaceChar(ReplaceChar(ReplaceChar(RemoveFirst(ToLowercase(s), "-"),
                                        "i", "1"), "l", "1"), "o", "0")

\* The same, replacing i, l and o before lowercasing.
normalize_replace_before_lowercase(s) ==
    ToLowercase(ReplaceChar(ReplaceChar(ReplaceChar(RemoveChar(s, "-"),
                                                    "i", "1"), "l", "1"), "o", "0"))

\* lowercase, drop every '-', then i -> 1, l -> 1, o -> 0
normalize(s) ==
    ReplaceChar(ReplaceChar(ReplaceChar(RemoveChar(ToLowercase(s), "-"),
                                        "i", "1"), "l", "1"), "o", "0")

\* The results of decode and decode_id.
Ok(v) == [tag |-> "Ok", val |-> v, err |-> ""]
Err(e) == [tag |-> "Err", val |-> I64Zero, err |-> e]
Panic == [tag |-> "Panic", val |-> I64Zero, err |-> ""]

\* The characters of s from byte offset b on; b must be a character boundary.
RECURSIVE FromByte(_, _)
FromByte(s, b) == IF b <= 0 \/ s = <<>> THEN s ELSE FromByte(Tail(s), b - ByteLen(Head(s)))

\* str::is_char_boundary
RECURSIVE IsCharBoundary(_, _)
IsCharBoundary(s, b) ==
    IF b = 0 THEN TRUE
    ELSE IF b < 0 \/ s = <<>> THEN FALSE
    ELSE IsCharBoundary(Tail(s), b - ByteLen(Head(s)))

\* str::parse::<u8>, -1 for Err: an optional '+', then ASCII digits only (a lone
\* sign, an empty string and any other character are errors), value below 256.
RECURSIVE DigitsValue(_, _)
DigitsValue(s, acc) ==
    IF s = <<>> THEN acc
    ELSE IF Head(s) \notin Digit \/ acc < 0 \/ acc > 255 THEN -1
    ELSE DigitsValue(Tail(s), acc * 10 + IndexOf(DigitSeq, Head(s)) - 1)

ParseU8(s) ==
    LET digits == IF s # <<>> /\ Head(s) = "+" THEN Tail(s) ELSE s
        v == DigitsValue(digits, 0)
    IN  IF digits = <<>> \/ v > 255 THEN -1 ELSE v

\* The for loop of decode over the payload: number = number * 32 + index, with
\* the multiplication done before the character is looked up.
RECURSIVE DecodeLoop(_, _)
DecodeLoop(s, num) ==
    IF s = <<>> THEN Ok(num)
    ELSE IF overflow_checks /\ MulOverflows(num, 32) THEN Panic
    ELSE LET shifted == MulSmall(num, 32).val
             pos == IndexOf(ENCODING_CHARS, Head(s)) - 1
         IN  IF pos < 0 THEN Err("InvalidCharacter")
             ELSE IF overflow_checks /\ AddOverflows(shifted, pos) THEN Panic
             ELSE DecodeLoop(Tail(s), AddSmall(shifted, pos).val)

decode(str, cs) ==
    LET normalized == normalize(str)
        cut == StrByteLen(normalized) - 2
        cs_str == FromByte(normalized, cut)
        parsed == ParseU8(cs_str)
        encoded == IF cs THEN SubSeq(normalized, 1, Len(normalized) - Len(cs_str))
                   ELSE normalized
        decoded == DecodeLoop(encoded, I64Zero)
        valid == validate(decoded.val, parsed)
    IN  IF cs /\ cut < 0 THEN Err("InvalidChecksumFormat")
        ELSE IF cs /\ ~IsCharBoundary(normalized, cut) THEN Panic
        ELSE IF cs /\ parsed < 0 THEN Err("InvalidChecksumFormat")
        ELSE IF decoded.tag # "Ok" \/ ~cs THEN decoded
        ELSE IF valid.panic THEN Panic
        ELSE IF valid.val = 0 THEN Err("InvalidChecksum")
        ELSE decoded

---------------------------------------------------------------------------
(* Regular expressions, as far as the recognizers use them                 *)

\* The characters of the model in the order of their (first) UTF-8 byte.
ByteOrder ==
    <<" ", "#", "%", "*", "+", "-", ".", "/">> \o DigitSeq \o <<":", ";", "=", "?">>
    \o UpperSeq \o <<"_">> \o LowerSeq \o <<"U+00E9", "U+0663">>

\* Rust's comparison of two &str: lexicographic on the bytes.
RECURSIVE StrLe(_, _)
StrLe(a, b) ==
    IF a = <<>> THEN TRUE
    ELSE IF b = <<>> THEN FALSE
    ELSE IF Head(a) = Head(b) THEN StrLe(Tail(a), Tail(b))
    ELSE IndexOf(ByteOrder, Head(a)) < IndexOf(ByteOrder, Head(b))

\* \d of the regex crate: every Unicode decimal digit, not only 0-9.
UnicodeDigit == Digit \cup {"U+0663"}
\* [a-fA-F0-9] and [a-f0-9]
HexDigit == Digit \cup {"a", "b", "c", "d", "e", "f", "A", "B", "C", "D", "E", "F"}
LowerHexDigit == Digit \cup {"a", "b", "c", "d", "e", "f"}
\* \s, as far as the model has whitespace
Whitespace == {" "}

\* One item of a pattern: a character class (negated when neg) repeated min..max
\* times, or min or more times when more.
Rep(set, min, max) == <<[neg |-> FALSE, set |-> set, min |-> min, max |-> max, more |-> FALSE]>>
OneOrMore(set) == <<[neg |-> FALSE, set |-> set, min |-> 1, max |-> 1, more |-> TRUE]>>
OneOrMoreNot(set) == <<[neg |-> TRUE, set |-> set, min |-> 1, max |-> 1, more |-> TRUE]>>
One(set) == Rep(set, 1, 1)
Opt(set) == Rep(set, 0, 1)
\* A literal string
Lit(s) == [i \in 1..Len(s) |-> [neg |-> FALSE, set |-> {s[i]}, min |-> 1, max |-> 1, more |-> FALSE]]

InClass(c, item) == (c \in item.set) # item.neg

\* Whether s from position i on matches the items of pat from j on, to the end of s.
RECURSIVE MatchFrom(_, _, _, _)
MatchFrom(s, i, pat, j) ==
    IF j > Len(pat) THEN i = Len(s) + 1
    ELSE LET item == pat[j]
             left == Len(s) - i + 1
             most == IF item.more \/ item.max > left THEN left ELSE item.max
         IN  \E n \in item.min..most :
                 /\ \A t \in 0..(n - 1) : InClass(s[i + t], item)
                 /\ MatchFrom(s, i + n, pat, j + 1)

\* ^pat$
Matches(s, pat) == MatchFrom(s, 1, pat, 1)

StartsWith(s, p) == Len(p) <= Len(s) /\ SubSeq(s, 1, Len(p)) = p
DropPrefix(s, p) == SubSeq(s, Len(p) + 1, Len(s))

\* An Option<String>
Some(s) == [some |-> TRUE, str |-> s]
NoneStr == [some |-> FALSE, str |-> <<>>]

\* ^(?:wrapper)?(pat)$ where the optional wrappers in front of the capture
\* group are one of the strings of `wrappers` and the group is one of the
\* patterns of `pats`: the capture group, if any.
Capture(s, wrappers, pats) ==
    LET fits == {w \in wrappers :
                    StartsWith(s, w) /\ \E pat \in pats : Matches(DropPrefix(s, w), pat)}
    IN  IF fits = {} THEN NoneStr
        ELSE Some(DropPrefix(s, CHOOSE w \in fits : TRUE))

\* Whether s contains the string p.
Contains(s, p) == \E i \in 1..(Len(s) - Len(p) + 1) : SubSeq(s, i, i + Len(p) - 1) = p

\* The first position of character c in s, 0 when there is none.
FirstIndex(s, c) == IF \E i \in 1..Len(s) : s[i] = c
                    THEN CHOOSE i \in 1..Len(s) : s[i] = c /\ \A k \in 1..(i - 1) : s[k] # c
                    ELSE 0

\* str::split(c): the segments between the occurrences of c.
RECURSIVE SplitOn(_, _)
SplitOn(s, c) ==
    LET i == FirstIndex(s, c)
    IN  IF i = 0 THEN <<s>>
        ELSE <<SubSeq(s, 1, i - 1)>> \o SplitOn(SubSeq(s, i + 1, Len(s)), c)

\* (?:http|https)://
HttpSchemes == {<<"h", "t", "t", "p", ":", "/", "/">>, <<"h", "t", "t", "p", "s", ":", "/", "/">>}
\* (?:(?:www)?\.)?
OptWww == {<<>>, <<".">>, <<"w", "w", "w", ".">>}
\* (?:(?:www|sandbox)?\.)?
OptWwwSandbox == {<<>>, <<".">>, <<"w", "w", "w", ".">>, <<"s", "a", "n", "d", "b", "o", "x", ".">>}

---------------------------------------------------------------------------
(* src/src/doiutils.rs                                                     *)

\* (?:(http|https):/(/)?(dx\.)?(doi\.org|handle\.stage\.datacite\.org|handle\.test\.datacite\.org)/)?(doi:)?
DoiWrappers ==
    LET resolvers ==
            {a \o b \o c \o d \o <<"/">> :
                a \in {<<"h", "t", "t", "p", ":", "/">>, <<"h", "t", "t", "p", "s", ":", "/">>},
                b \in {<<>>, <<"/">>},
                c \in {<<>>, <<"d", "x", ".">>},
                d \in {<<"d", "o", "i", ".", "o", "r", "g">>, <<"h", "a", "n", "d", "l", "e", ".", "s", "t", "a", "g", "e", ".", "d", "a", "t", "a", "c", "i", "t", "e", ".", "o", "r", "g">>,
                       <<"h", "a", "n", "d", "l", "e", ".", "t", "e", "s", "t", ".", "d", "a", "t", "a", "c", "i", "t", "e", ".", "o", "r", "g">>}}
    IN  {r \o p : r \in resolvers \cup {<<>>}, p \in {<<>>, <<"d", "o", "i", ":">>}}

\* (10\.\d{4,5}/[^\s]+)
DoiPattern ==
    Lit(<<"1", "0", ".">>) \o Rep(UnicodeDigit, 4, 5) \o Lit(<<"/">>) \o OneOrMoreNot(Whitespace)

validate_doi(doi) == Capture(doi, DoiWrappers, {DoiPattern})

---------------------------------------------------------------------------
(* src/src/utils.rs: the recognizers                                       *)

\* ^(?:https?://doi\.org/)?(?:10\.13039/)?((501)?1000[0-9]{5})$
validate_crossref_funder_id(fundref) ==
    Capture(fundref,
            {a \o b : a \in {<<>>, <<"h", "t", "t", "p", ":", "/", "/", "d", "o", "i", ".", "o", "r", "g", "/">>, <<"h", "t", "t", "p", "s", ":", "/", "/", "d", "o", "i", ".", "o", "r", "g", "/">>},
                      b \in {<<>>, <<"1", "0", ".", "1", "3", "0", "3", "9", "/">>}},
            {Lit(<<"1", "0", "0", "0">>) \o Rep(Digit, 5, 5),
             Lit(<<"5", "0", "1", "1", "0", "0", "0">>) \o Rep(Digit, 5, 5)})

\* ^(?:(?:http|https)://(?:(?:www)?\.)?grid\.ac/)?(?:institutes/)?(grid\.[0-9]+\.[a-f0-9]{1,2})$
validate_grid(grid) ==
    Capture(grid,
            {a \o b : a \in {<<>>} \cup {h \o w \o <<"g", "r", "i", "d", ".", "a", "c", "/">> : h \in HttpSchemes, w \in OptWww},
                      b \in {<<>>, <<"i", "n", "s", "t", "i", "t", "u", "t", "e", "s", "/">>}},
            {Lit(<<"g", "r", "i", "d", ".">>) \o OneOrMore(Digit) \o Lit(<<".">>) \o Rep(LowerHexDigit, 1, 2)})

\* The same, with the start of the range excluded.
is_in_range_start_excluded(value, start, end) ==
    StrLe(start, value) /\ start # value /\ StrLe(value, end)

\* value >= start && value <= end, on strings
is_in_range(value, start, end) == StrLe(start, value) /\ StrLe(value, end)

RANGE1_START == <<"0", "0", "0", "0", "0", "0", "0", "1", "5", "0", "0", "0", "0", "0", "0", "7">>
RANGE1_END == <<"0", "0", "0", "0", "0", "0", "0", "3", "5", "0", "0", "0", "0", "0", "0", "1">>
RANGE2_START == <<"0", "0", "0", "9", "0", "0", "0", "0", "0", "0", "0", "0", "0", "0", "0", "0">>
RANGE2_END == <<"0", "0", "0", "9", "0", "0", "1", "0", "0", "0", "0", "0", "0", "0", "0", "0">>

check_orcid_number_range(orcid) ==
    LET n == RemoveChar(RemoveChar(orcid, "-"), " ")
    IN  is_in_range(n, RANGE1_START, RANGE1_END) \/ is_in_range(n, RANGE2_START, RANGE2_END)

\* ^(?:(?:http|https)://(?:(?:www)?\.)?isni\.org/)?(?:isni/)?(0000[ -]?00\d{2}[ -]?\d{4}[ -]?\d{3}[0-9X]+)$
IsniWrappers ==
    {a \o b : a \in {<<>>} \cup {h \o w \o <<"i", "s", "n", "i", ".", "o", "r", "g", "/">> : h \in HttpSchemes, w \in OptWww},
              b \in {<<>>, <<"i", "s", "n", "i", "/">>}}

IsniPattern ==
    Lit(<<"0", "0", "0", "0">>) \o Opt({" ", "-"}) \o Lit(<<"0", "0">>) \o Rep(UnicodeDigit, 2, 2)
    \o Opt({" ", "-"}) \o Rep(UnicodeDigit, 4, 4)
    \o Opt({" ", "-"}) \o Rep(UnicodeDigit, 3, 3) \o OneOrMore(Digit \cup {"X"})

validate_isni(isni) ==
    LET m == Capture(isni, IsniWrappers, {IsniPattern})
        clean_match == RemoveChar(RemoveChar(m.str, " "), "-")
    IN  IF m.some /\ ~check_orcid_number_range(clean_match) THEN m ELSE NoneStr

\* ^(?:https://portal\.issn\.org/resource/ISSN/)?(\d{4}\-\d{3}(\d|x|X))$
validate_issn(issn) ==
    Capture(issn, {<<>>, <<"h", "t", "t", "p", "s", ":", "/", "/", "p", "o", "r", "t", "a", "l", ".", "i", "s", "s", "n", ".", "o", "r", "g", "/", "r", "e", "s", "o", "u", "r", "c", "e", "/", "I", "S", "S", "N", "/">>},
            {Rep(UnicodeDigit, 4, 4) \o Lit(<<"-">>) \o Rep(UnicodeDigit, 3, 3)
             \o One(UnicodeDigit \cup {"x", "X"})})

\* ^(?:(?:http|https)://(?:(?:www|sandbox)?\.)?orcid\.org/)?(000[09][ -]000[123][ -]\d{4}[ -]\d{3}[0-9X]+)$
OrcidWrappers ==
    {<<>>} \cup {h \o w \o <<"o", "r", "c", "i", "d", ".", "o", "r", "g", "/">> : h \in HttpSchemes, w \in OptWwwSandbox}

OrcidPattern ==
    Lit(<<"0", "0", "0">>) \o One({"0", "9"}) \o One({" ", "-"})
    \o Lit(<<"0", "0", "0">>) \o One({"1", "2", "3"}) \o One({" ", "-"})
    \o Rep(UnicodeDigit, 4, 4) \o One({" ", "-"})
    \o Rep(UnicodeDigit, 3, 3) \o OneOrMore(Digit \cup {"X"})

validate_orcid(orcid) ==
    LET m == Capture(orcid, OrcidWrappers, {OrcidPattern})
    IN  IF m.some /\ check_orcid_number_range(m.str) THEN m ELSE NoneStr

\* ^[0-9A-Z]{5}-[0-9A-Z]{3}[0-9]{2}$
validate_rid(rid) ==
    IF Matches(rid, Rep(Digit \cup Upper, 5, 5) \o Lit(<<"-">>) \o Rep(Digit \cup Upper, 3, 3)
                    \o Rep(Digit, 2, 2))
    THEN Some(rid) ELSE NoneStr

\* ^(?:(?:http|https)://ror\.org/)?(0[0-9a-z]{6}\d{2})$
validate_ror(ror) ==
    Capture(ror, {<<>>} \cup {h \o <<"r", "o", "r", ".", "o", "r", "g", "/">> : h \in HttpSchemes},
            {Lit(<<"0">>) \o Rep(Digit \cup Lower, 6, 6) \o Rep(UnicodeDigit, 2, 2)})

\* ^[a-fA-F0-9]{8}-[a-fA-F0-9]{4}-4[a-fA-F0-9]{3}-[89aAbB][a-fA-F0-9]{3}-[a-fA-F0-9]{12}$
validate_uuid(uuid) ==
    IF Matches(uuid, Rep(HexDigit, 8, 8) \o Lit(<<"-">>) \o Rep(HexDigit, 4, 4) \o Lit(<<"-", "4">>)
                     \o Rep(HexDigit, 3, 3) \o Lit(<<"-">>) \o One({"8", "9", "a", "A", "b", "B"})
                     \o Rep(HexDigit, 3, 3) \o Lit(<<"-">>) \o Rep(HexDigit, 12, 12))
    THEN Some(uuid) ELSE NoneStr

\* ^(?:(?:http|https)://(?:(?:www)?\.)?wikidata\.org/wiki/)?(Q\d+)$
validate_wikidata(wikidata) ==
    Capture(wikidata,
            {<<>>} \cup {h \o w \o <<"w", "i", "k", "i", "d", "a", "t", "a", ".", "o", "r", "g", "/", "w", "i", "k", "i", "/">> : h \in HttpSchemes, w \in OptWww},
            {Lit(<<"Q">>) \o OneOrMore(UnicodeDigit)})

---------------------------------------------------------------------------
(* url::Url::parse, as validate_url uses it: scheme, host, path and the    *)
(* serialization of a URL without credentials and without "." or ".."     *)
(* path segments.                                                          *)

SchemeChars == Lower \cup Upper \cup Digit \cup {"+", "-", "."}
SpecialSchemes == {<<"h", "t", "t", "p">>, <<"h", "t", "t", "p", "s">>, <<"f", "t", "p">>, <<"w", "s">>, <<"w", "s", "s">>}
\* Characters a host may not hold (of the characters of the model).
ForbiddenHostChars == {" ", "#", "%", "/", ":", "?"}

RECURSIVE DropLeading(_, _)
DropLeading(s, c) == IF s # <<>> /\ Head(s) = c THEN DropLeading(Tail(s), c) ELSE s

\* The prefix of s before the first character of `stops`.
RECURSIVE UpTo(_, _)
UpTo(s, stops) ==
    IF s = <<>> \/ Head(s) \in stops THEN <<>> ELSE <<Head(s)>> \o UpTo(Tail(s), stops)

\* Percent-encoding of the path and the query: the space and the
\* characters outside ASCII.
PercentEncodeChar(c) ==
    IF c = " " THEN <<"%", "2", "0">>
    ELSE IF c = "U+00E9" THEN <<"%", "C", "3", "%", "A", "9">>
    ELSE IF c = "U+0663" THEN <<"%", "D", "9", "%", "A", "3">>
    ELSE <<c>>

RECURSIVE PercentEncode(_)
PercentEncode(s) ==
    IF s = <<>> THEN <<>> ELSE PercentEncodeChar(Head(s)) \o PercentEncode(Tail(s))

UrlErr == [ok |-> FALSE, scheme |-> <<>>, host |-> <<>>, path |-> <<>>, as_str |-> <<>>]

ParseUrl(s) ==
    LET colon == FirstIndex(s, ":")
        scheme == ToLowercase(SubSeq(s, 1, colon - 1))
        rest == DropLeading(SubSeq(s, colon + 1, Len(s)), "/")
        authority == UpTo(rest, {"/", "?", "#"})
        host == ToLowercase(UpTo(authority, {":"}))
        port == SubSeq(authority, Len(host) + 2, Len(authority))
        tail == SubSeq(rest, Len(authority) + 1, Len(rest))
        rawpath == UpTo(tail, {"?", "#"})
        path == IF rawpath = <<>> THEN <<"/">> ELSE PercentEncode(rawpath)
        after == PercentEncode(SubSeq(tail, Len(rawpath) + 1, Len(tail)))
    IN  IF colon < 2 \/ s[1] \notin Lower \cup Upper
           \/ \E i \in 1..(colon - 1) : s[i] \notin SchemeChars
        THEN UrlErr                                     \* relative URL without a base
        ELSE IF scheme \notin SpecialSchemes
        THEN [ok |-> TRUE, scheme |-> scheme, host |-> <<>>,
              path |-> SubSeq(s, colon + 1, Len(s)), as_str |-> s]
        ELSE IF host = <<>> \/ \E i \in 1..Len(host) : host[i] \in ForbiddenHostChars
        THEN UrlErr                                     \* empty host, invalid domain character
        ELSE IF \E i \in 1..Len(port) : port[i] \notin Digit
        THEN UrlErr                                     \* invalid port number
        ELSE [ok |-> TRUE, scheme |-> scheme, host |-> host, path |-> path,
              as_str |-> scheme \o <<":", "/", "/">> \o host
                         \o (IF port = <<>> THEN <<>> ELSE <<":">> \o port)
                         \o path \o after]

---------------------------------------------------------------------------
(* src/src/utils.rs: validate_url, validate_id, decode_id                  *)

has_disallowed_fragments(url) ==
    Contains(url.as_str, <<";", "o", "r", "i", "g", "i", "n", "=">>) \/ Contains(url.as_str, <<";", "j", "s", "e", "s", "s", "i", "o", "n", "i", "d", "=">>)

is_rogue_scholar_url(url) ==
    url.scheme = <<"h", "t", "t", "p", "s">> /\ url.host = <<"a", "p", "i", ".", "r", "o", "g", "u", "e", "-", "s", "c", "h", "o", "l", "a", "r", ".", "o", "r", "g">>

is_valid_rogue_scholar_post(path_segments) ==
    IF Len(path_segments) >= 2 /\ path_segments[2] = <<"p", "o", "s", "t", "s">>
    THEN IF Len(path_segments) = 3 THEN validate_uuid(path_segments[3]).some
         ELSE IF Len(path_segments) = 4
         THEN validate_doi(path_segments[3] \o <<"/">> \o path_segments[4]).some
         ELSE FALSE
    ELSE FALSE

\* The tag validate_url returns, "" for none.
validate_url(str) ==
    LET url == ParseUrl(str)
    IN  IF validate_doi(str).some THEN "DOI"
        ELSE IF ~url.ok THEN ""
        ELSE IF has_disallowed_fragments(url) THEN ""
        ELSE IF is_rogue_scholar_url(url)
        THEN IF is_valid_rogue_scholar_post(SplitOn(url.path, "/")) THEN "JSONFEEDID" ELSE ""
        ELSE IF url.scheme = <<"h", "t", "t", "p">> \/ url.scheme = <<"h", "t", "t", "p", "s">> THEN "URL"
        ELSE ""

Classified(ident, type) == [identifier |-> ident, identifier_type |-> type]

\* The same, asking validate_doi before validate_crossref_funder_id.
validate_id_doi_first(s) ==
    IF validate_doi(s).some THEN Classified(validate_doi(s).str, "DOI")
    ELSE IF validate_crossref_funder_id(s).some
    THEN Classified(validate_crossref_funder_id(s).str, "Crossref Funder ID")
    ELSE IF validate_uuid(s).some THEN Classified(validate_uuid(s).str, "UUID")
    ELSE IF validate_rid(s).some THEN Classified(validate_rid(s).str, "RID")
    ELSE IF validate_orcid(s).some THEN Classified(validate_orcid(s).str, "ORCID")
    ELSE IF validate_ror(s).some THEN Classified(validate_ror(s).str, "ROR")
    ELSE IF validate_grid(s).some THEN Classified(validate_grid(s).str, "GRID")
    ELSE IF validate_wikidata(s).some THEN Classified(validate_wikidata(s).str, "Wikidata")
    ELSE IF validate_isni(s).some THEN Classified(validate_isni(s).str, "ISNI")
    ELSE IF validate_issn(s).some THEN Classified(validate_issn(s).str, "ISSN")
    ELSE IF validate_url(s) # "" THEN Classified(s, "URL")
    ELSE Classified(<<>>, "")

validate_id(s) ==
    IF validate_crossref_funder_id(s).some
    THEN Classified(validate_crossref_funder_id(s).str, "Crossref Funder ID")
    ELSE IF validate_doi(s).some THEN Classified(validate_doi(s).str, "DOI")
    ELSE IF validate_uuid(s).some THEN Classified(validate_uuid(s).str, "UUID")
    ELSE IF validate_rid(s).some THEN Classified(validate_rid(s).str, "RID")
    ELSE IF validate_orcid(s).some THEN Classified(validate_orcid(s).str, "ORCID")
    ELSE IF validate_ror(s).some THEN Classified(validate_ror(s).str, "ROR")
    ELSE IF validate_grid(s).some THEN Classified(validate_grid(s).str, "GRID")
    ELSE IF validate_wikidata(s).some THEN Classified(validate_wikidata(s).str, "Wikidata")
    ELSE IF validate_isni(s).some THEN Classified(validate_isni(s).str, "ISNI")
    ELSE IF validate_issn(s).some THEN Classified(validate_issn(s).str, "ISSN")
    ELSE IF validate_url(s) # "" THEN Classified(s, "URL")
    ELSE Classified(<<>>, "")

\* The loop of validate_mod11_2 over the body: m = ((m + d) * 2) % 11;
\* -1 when a character is no decimal digit (to_digit(10).unwrap() panics).
RECURSIVE Mod11Loop(_, _)
Mod11Loop(body, m) ==
    IF body = <<>> THEN m
    ELSE IF Head(body) \notin Digit THEN -1
    ELSE Mod11Loop(Tail(body), ((m + IndexOf(DigitSeq, Head(body)) - 1) * 2) % 11)

\* "Ok", "Err" or "Panic"
validate_mod11_2(input) ==
    LET checksum_char == input[Len(input)]
        body == SubSeq(input, 1, Len(input) - 1)
        m == Mod11Loop(body, 0)
        check_value == (12 - m) % 11
        expected_char == IF check_value = 10 THEN "X" ELSE DigitSeq[check_value + 1]
    IN  IF \E i \in 1..Len(input) : input[i] \notin Digit \cup {"X"} THEN "Err"
        ELSE IF input = <<>> \/ m < 0 THEN "Panic"
        ELSE IF checksum_char = expected_char THEN "Ok"
        ELSE "Err"

\* str::parse::<i64> of a string of ASCII digits: checked multiplication and
\* addition, an error when the value leaves i64.
RECURSIVE ParseI64(_, _)
ParseI64(s, acc) ==
    IF s = <<>> THEN Ok(acc)
    ELSE IF Head(s) \notin Digit \/ MulOverflows(acc, 10) THEN Err("Failed to parse ORCID")
    ELSE LET d == IndexOf(DigitSeq, Head(s)) - 1
             shifted == MulSmall(acc, 10).val
         IN  IF AddOverflows(shifted, d) THEN Err("Failed to parse ORCID")
             ELSE ParseI64(Tail(s), AddSmall(shifted, d).val)

decode_id(s) ==
    LET v == validate_id(s)
        parts == SplitOn(v.identifier, "/")
        cleaned == RemoveChar(v.identifier, "-")
        checked == validate_mod11_2(cleaned)
        number_str == SubSeq(cleaned, 1, Len(cleaned) - 1)
    IN  IF v.identifier_type = "DOI"
        THEN IF Len(parts) < 2 THEN Err("Invalid DOI format") ELSE decode(parts[2], TRUE)
        ELSE IF v.identifier_type \in {"ROR", "RID"} THEN decode(v.identifier, TRUE)
        ELSE IF v.identifier_type = "ORCID"
        THEN IF checked = "Panic" THEN Panic
             ELSE IF checked = "Err" THEN Err("Invalid checksum for ORCID")
             ELSE IF number_str = <<>> THEN Err("Failed to parse ORCID")
             ELSE ParseI64(number_str, I64Zero)
        ELSE Err("not recognized")

---------------------------------------------------------------------------
(* The calls of the codec                                                  *)

\* Numbers encode is called with: 12345 is the number of the crate's tests;
\* the others sit at the edges of the base-32 digit count and of 100 * n.
SampleNumbers ==
    { I64FromNat(12345), I64FromNat(1023), I64FromNat(1024), I64FromNat(32767),
      I64FromNat(1048576),
      <<65535, 65535, 65535, 4095>>,     \* 32^12 - 1
      <<65535, 65535, 255, 0>>,          \* 32^8 - 1
      <<0, 0, 0, 4096>>,                 \* 32^12
      <<18350, 31457, 44564, 327>>,      \* i64::MAX / 100
      <<18351, 31457, 44564, 327>>,      \* i64::MAX / 100 + 1
      <<18352, 31457, 44564, 327>>,      \* i64::MAX / 100 + 2
      <<0, 0, 0, 16384>>,                \* 2^62
      I64Max }

Numbers == {I64FromNat(n) : n \in 0..MaxNumber} \cup SampleNumbers

\* Characters a single character of an encoded string is replaced by.
FlipChars == Digit \cup {"a", "b", "z", "u", "i", "l", "o", "A", "I", "L", "O",
                         "-", "+", "*", "U+00E9"}

None == [tag |-> "None", val |-> I64Zero, err |-> ""]

Init ==
    /\ overflow_checks \in BOOLEAN
    /\ pc = "idle"
    /\ number = I64Zero
    /\ split_every = 0
    /\ length = 0
    /\ checksum = FALSE
    /\ orig = <<>>
    /\ text = <<>>
    /\ id = <<>>
    /\ identifier = <<>>
    /\ identifier_type = ""
    /\ result = None

\* A call of generate_checksum(n).
GenerateChecksum(n) ==
    /\ pc = "idle"
    /\ pc' = "generate_checksum"
    /\ number' = n
    /\ result' = LET g == generate_checksum(n)
                 IN  IF g.panic THEN Panic ELSE Ok(I64FromNat(g.val))
    /\ UNCHANGED <<overflow_checks, split_every, length, checksum, orig, text,
                   id, identifier, identifier_type>>

\* A call of encode(n, every, len, cs).
Encode(n, every, len, cs) ==
    /\ pc = "idle"
    /\ LET e == encode(n, every, len, cs)
       IN  /\ pc' = IF e.panic THEN "encode_panicked" ELSE "encode"
           /\ orig' = e.str
           /\ text' = e.str
    /\ number' = n
    /\ split_every' = every
    /\ length' = len
    /\ checksum' = cs
    /\ UNCHANGED <<overflow_checks, id, identifier, identifier_type, result>>

\* One character of a checksum-protected encoded string is replaced by another.
Flip(p, c) ==
    /\ pc = "encode"
    /\ checksum /\ split_every = 0 /\ length = 0
    /\ p \in 1..Len(text)
    /\ c # text[p]
    /\ text' = [text EXCEPT ![p] = c]
    /\ pc' = "flip"
    /\ UNCHANGED <<overflow_checks, number, split_every, length, checksum, orig,
                   id, identifier, identifier_type, result>>

\* A call of generate(len, every, cs) in which gen_range draws n; no number
\* is drawn when generate panics at once.
Generate(len, every, cs, n) ==
    /\ pc = "idle"
    /\ IF cs /\ len < 3 THEN n = I64Zero
       ELSE I64Less(n, DrawEnd(IF cs THEN len - 2 ELSE len))
    /\ LET g == generate(len, every, cs, n)
       IN  /\ pc' = IF g.panic THEN "generate_panicked" ELSE "generate"
           /\ orig' = g.str
           /\ text' = g.str
    /\ number' = n
    /\ split_every' = every
    /\ length' = len
    /\ checksum' = cs
    /\ UNCHANGED <<overflow_checks, id, identifier, identifier_type, result>>

\* A call of decode(text, checksum) on the string at hand.
Decode ==
    /\ pc \in {"encode", "flip", "generate"}
    /\ result' = decode(text, checksum)
    /\ pc' = IF pc = "generate" THEN "decode_generated" ELSE "decode"
    /\ UNCHANGED <<overflow_checks, number, split_every, length, checksum, orig, text,
                   id, identifier, identifier_type>>

\* The split_every arguments of generate: those of encode, and the 5 of encode_doi.
GenerateSplits == (0..MaxSplit) \cup {5}

\* Characters of the strings normalize is called with.
NormalizeChars == {"-", "i", "I", "L", "o", "O", "1", "a", "U+00E9"}

NormalizeInputs == UNION {[1..k -> NormalizeChars] : k \in 0..MaxNormalizeLen}

\* A call of normalize(normalize(s)): orig is what the inner call returns,
\* text what the outer call returns.
Normalize(s) ==
    /\ pc = "idle"
    /\ pc' = "normalize"
    /\ id' = s
    /\ orig' = normalize(s)
    /\ text' = normalize(normalize(s))
    /\ UNCHANGED <<overflow_checks, number, split_every, length, checksum,
                   identifier, identifier_type, result>>

---------------------------------------------------------------------------
(* The calls of the recognizers and of the decode dispatcher               *)

\* What an identifier may be wrapped in.
IdWrappers ==
    { <<>>,
      <<"h", "t", "t", "p", "s", ":", "/", "/", "d", "o", "i", ".", "o", "r", "g", "/">>,
      <<"d", "o", "i", ":">>,
      <<"h", "t", "t", "p", "s", ":", "/", "/", "o", "r", "c", "i", "d", ".", "o", "r", "g", "/">>,
      <<"h", "t", "t", "p", ":", "/", "/", "i", "s", "n", "i", ".", "o", "r", "g", "/", "i", "s", "n", "i", "/">>,
      <<"h", "t", "t", "p", "s", ":", "/", "/", "r", "o", "r", ".", "o", "r", "g", "/">>,
      <<"h", "t", "t", "p", "s", ":", "/", "/", "w", "w", "w", ".", "w", "i", "k", "i", "d", "a", "t", "a", ".", "o", "r", "g", "/", "w", "i", "k", "i", "/">>,
      <<"h", "t", "t", "p", "s", ":", "/", "/", "g", "r", "i", "d", ".", "a", "c", "/", "i", "n", "s", "t", "i", "t", "u", "t", "e", "s", "/">>,
      <<"h", "t", "t", "p", "s", ":", "/", "/", "p", "o", "r", "t", "a", "l", ".", "i", "s", "s", "n", ".", "o", "r", "g", "/", "r", "e", "s", "o", "u", "r", "c", "e", "/", "I", "S", "S", "N", "/">>,
      <<"h", "t", "t", "p", "s", ":", "/", "/", "a", "p", "i", ".", "r", "o", "g", "u", "e", "-", "s", "c", "h", "o", "l", "a", "r", ".", "o", "r", "g", "/", "p", "o", "s", "t", "s", "/">>,
      <<"h", "t", "t", "p", "s", ":", "/", "/", "a", "p", "i", ".", "r", "o", "g", "u", "e", "-", "s", "c", "h", "o", "l", "a", "r", ".", "o", "r", "g", "/">>,
      <<"h", "t", "t", "p", ":", "/", "/", "a", "p", "i", ".", "r", "o", "g", "u", "e", "-", "s", "c", "h", "o", "l", "a", "r", ".", "o", "r", "g", "/", "p", "o", "s", "t", "s", "/">>,
      <<"h", "t", "t", "p", "s", ":", "/", "/", "e", "x", "a", "m", "p", "l", "e", ".", "o", "r", "g", "/">>,
      <<"f", "t", "p", ":", "/", "/", "e", "x", "a", "m", "p", "l", "e", ".", "o", "r", "g", "/">>,
      <<"h", "t", "t", "p", "s", ":", "/", "/", "e", "x", "a", "m", "p", "l", "e", ".", "o", "r", "g", "/", "a", ";", "j", "s", "e", "s", "s", "i", "o", "n", "i", "d", "=", "1", "/">> }

IdPayloads ==
    { \* Crossref Funder IDs
      <<"5", "0", "1", "1", "0", "0", "0", "0", "0", "0", "1", "1">>, <<"1", "0", ".", "1", "3", "0", "3", "9", "/", "5", "0", "1", "1", "0", "0", "0", "0", "0", "0", "1", "1">>, <<"1", "0", "0", "0", "0", "0", "0", "0", "1">>,
      \* DOIs: suffixes that are encode(12345, ..., true) and variations of it
      <<"1", "0", ".", "5", "4", "9", "0", "0", "/", "c", "1", "s", "2", "0">>, <<"1", "0", ".", "5", "4", "9", "0", "0", "/", "C", "1", "S", "-", "2", "0">>, <<"1", "0", ".", "5", "4", "9", "0", "0", "/", "c", "1", "s", "2", "1">>, <<"1", "0", ".", "5", "4", "9", "0", "0", "/", "c", "1", "t", "2", "0">>,
      <<"1", "0", ".", "5", "4", "9", "0", "0", "/", "c", "1", "s", "2", "0", "/", "x">>, <<"1", "0", ".", "5", "4", "9", "0", "0", "/", "c", "1", "u", "2", "0">>, <<"1", "0", ".", "5", "4", "9", "0", "0", "/", "c", "1", "s", "2", "a">>, <<"1", "0", ".", "5", "4", "9", "0", "0", "/", "y", "+", "8">>,
      <<"1", "0", ".", "5", "4", "9", "0", "0", "/", "U+00E9", "1">>, <<"1", "0", ".", "5", "4", "9", "0", "0", "/", "a", "U+00E9">>, <<"1", "0", ".", "5", "4", "9", "0", "0", "/", "5">>, <<"1", "0", ".", "5", "4", "9", "0", "0", "/", "0", "9", "8">>,
      <<"1", "0", ".", "5", "4", "9", "0", "0", "/", "z", "z", "z", "z", "z", "z", "z", "z", "z", "z", "z", "z", "z", "z", "0", "5">>, <<"1", "0", ".", "5", "9", "3", "5", "0", "/", "a", "b", "c", "1", "2">>, <<"1", "0", ".", "1", "2", "3", "/", "c", "1", "s", "2", "0">>,
      \* UUIDs, version 4 and version 1
      <<"1", "2", "3", "e", "4", "5", "6", "7", "-", "e", "8", "9", "b", "-", "4", "2", "d", "3", "-", "a", "4", "5", "6", "-", "4", "2", "6", "6", "1", "4", "1", "7", "4", "0", "0", "0">>, <<"1", "2", "3", "e", "4", "5", "6", "7", "-", "e", "8", "9", "b", "-", "1", "2", "d", "3", "-", "a", "4", "5", "6", "-", "4", "2", "6", "6", "1", "4", "1", "7", "4", "0", "0", "0">>,
      \* RIDs
      <<"0", "0", "0", "0", "0", "-", "C", "1", "S", "2", "0">>, <<"0", "0", "0", "0", "0", "-", "C", "1", "S", "2", "1">>,
      \* ORCIDs
      <<"0", "0", "0", "0", "-", "0", "0", "0", "1", "-", "5", "0", "0", "0", "-", "0", "0", "0", "7">>, <<"0", "0", "0", "0", "-", "0", "0", "0", "2", "-", "1", "8", "2", "5", "-", "0", "0", "9", "7">>, <<"0", "0", "0", "0", "-", "0", "0", "0", "2", "-", "1", "8", "2", "5", "-", "0", "0", "9", "8">>,
      <<"0", "0", "0", "0", "-", "0", "0", "0", "2", "-", "1", "6", "9", "4", "-", "2", "3", "3", "X">>, <<"0", "0", "0", "0", "-", "0", "0", "0", "2", "-", "1", "2", "3", "4", "-", "5", "6", "7", "X", "X">>, <<"0", "0", "0", "0", "-", "0", "0", "0", "2", "-", "1", "2", "3", "4", "-", "5", "6", "7", "8", "9">>,
      <<"0", "0", "0", "0", " ", "0", "0", "0", "2", " ", "1", "8", "2", "5", " ", "0", "0", "9", "7">>, <<"0", "0", "0", "0", "-", "0", "0", "0", "2", "-", "1", "8", "U+0663", "5", "-", "0", "0", "9", "7">>, <<"0", "0", "0", "0", "-", "0", "0", "0", "3", "-", "5", "0", "0", "0", "-", "0", "0", "0", "1">>,
      <<"0", "0", "0", "0", "-", "0", "0", "0", "3", "-", "5", "0", "0", "0", "-", "0", "0", "0", "2">>, <<"0", "0", "0", "9", "-", "0", "0", "0", "0", "-", "1", "2", "3", "4", "-", "5", "6", "7", "8">>, <<"0", "0", "0", "9", "-", "0", "0", "0", "1", "-", "2", "3", "4", "5", "-", "6", "7", "8", "9">>,
      <<"0", "0", "0", "0", "-", "0", "0", "0", "2", "-", "1", "8", "2", "5", "-", "0", "0", "9", "7", "0", "0", "0", "0", "0", "0", "0", "0", "0", "0">>,
      \* ISNIs, and ISNI-shaped numbers in the ranges of ORCID
      <<"0", "0", "0", "0", "0", "0", "0", "1", "2", "1", "0", "3", "2", "6", "8", "3">>, <<"0", "0", "0", "0", " ", "0", "0", "0", "1", " ", "2", "1", "0", "3", " ", "2", "6", "8", "3">>, <<"0", "0", "0", "0", "-", "0", "0", "0", "1", "-", "2", "1", "0", "3", "-", "2", "6", "8", "3">>,
      <<"0", "0", "0", "0", "0", "0", "0", "1", "2", "1", "0", "3", "2", "6", "8", "X">>, <<"0", "0", "0", "0", "0", "0", "0", "1", "5", "0", "0", "0", "0", "0", "0", "6">>, <<"0", "0", "0", "0", "0", "0", "0", "1", "5", "0", "0", "0", "0", "0", "0", "7">>,
      <<"0", "0", "0", "0", "0", "0", "0", "1", "5", "0", "0", "0", "0", "0", "0", "8">>, <<"0", "0", "0", "0", " ", "0", "0", "0", "1", " ", "5", "0", "0", "0", " ", "0", "0", "0", "8">>, <<"0", "0", "0", "0", "0", "0", "0", "2", "1", "8", "2", "5", "0", "0", "9", "7">>,
      <<"0", "0", "0", "0", "0", "0", "0", "3", "5", "0", "0", "0", "0", "0", "0", "1">>, <<"0", "0", "0", "0", "0", "0", "0", "3", "5", "0", "0", "0", "0", "0", "0", "2">>, <<"0", "0", "0", "9", "0", "0", "0", "0", "1", "2", "3", "4", "5", "6", "7", "8">>,
      \* ROR, GRID, Wikidata, ISSN
      <<"0", "0", "0", "0", "c", "1", "s", "2", "0">>, <<"0", "0", "0", "0", "c", "1", "s", "2", "1">>, <<"g", "r", "i", "d", ".", "1", "2", "3", "4", ".", "a", "b">>, <<"Q", "4", "2">>, <<"2", "0", "4", "9", "-", "3", "6", "3", "0">>, <<"1", "2", "3", "4", "-", "5", "6", "7", "X">>,
      \* none of them
      <<"h", "e", "l", "l", "o">>, <<"a", " ", "b">>, <<>> }

IdInputs == {w \o p : w \in IdWrappers, p \in IdPayloads}

\* A call of validate_id(s).
ValidateId(s) ==
    /\ pc = "idle"
    /\ pc' = "validate_id"
    /\ id' = s
    /\ identifier' = validate_id(s).identifier
    /\ identifier_type' = validate_id(s).identifier_type
    /\ UNCHANGED <<overflow_checks, number, split_every, length, checksum, orig, text,
                   result>>

\* A call of validate_isni(s).
ValidateIsni(s) ==
    /\ pc = "idle"
    /\ pc' = "validate_isni"
    /\ id' = s
    /\ identifier' = validate_isni(s).str
    /\ result' = [None EXCEPT !.tag = IF validate_isni(s).some THEN "Some" ELSE "None"]
    /\ UNCHANGED <<overflow_checks, number, split_every, length, checksum, orig, text,
                   identifier_type>>

\* A call of decode_id(s), the decode subcommand.
DecodeId(s) ==
    /\ pc = "idle"
    /\ pc' = "decode_id"
    /\ id' = s
    /\ identifier' = validate_id(s).identifier
    /\ identifier_type' = validate_id(s).identifier_type
    /\ result' = decode_id(s)
    /\ UNCHANGED <<overflow_checks, number, split_every, length, checksum, orig, text>>

\* The guard on pc stands before the choice of the arguments.
Next ==
    \/ pc = "idle" /\ \E n \in Numbers : GenerateChecksum(n)
    \/ pc = "idle" /\ \E n \in Numbers, every \in 0..MaxSplit, len \in 0..MaxLength, cs \in BOOLEAN :
           Encode(n, every, len, cs)
    \/ pc = "idle" /\ \E len \in 0..MaxGenerateLength, every \in GenerateSplits, cs \in BOOLEAN, n \in Numbers :
           Generate(len, every, cs, n)
    \/ pc = "encode" /\ \E p \in 1..Len(text), c \in FlipChars : Flip(p, c)
    \/ Decode
    \/ pc = "idle" /\ \E s \in NormalizeInputs : Normalize(s)
    \/ pc = "idle" /\ \E s \in IdInputs : ValidateId(s)
    \/ pc = "idle" /\ \E s \in IdInputs : ValidateIsni(s)
    \/ pc = "idle" /\ \E s \in IdInputs : DecodeId(s)

Spec == Init /\ [][Next]_vars

---------------------------------------------------------------------------
(* Properties                                                              *)

\* C1: decode(encode(n, k, L, false), false) returns Ok(n), whatever the
\* grouping k and the padding L.
C1_RoundTripNoChecksum ==
    (pc = "decode" /\ ~checksum) => result = Ok(number)

\* C1 (witness): a number of more than one digit was encoded with zero
\* padding and '-' grouping, and decoded to itself.
C1_Witness ==
    /\ pc = "decode" /\ ~checksum
    /\ split_every > 0 /\ length > Len(EncodeDigits(number)) /\ Len(EncodeDigits(number)) > 1
    /\ Contains(text, <<"-">>) /\ text[1] = "0"
    /\ result = Ok(number)

\* C2: decode(encode(n, 0, 0, true), true) returns Ok(n) for every n >= 0 up
\* to i64::MAX: encode returns a string, and decode returns n for it.
C2_RoundTripChecksum ==
    /\ (pc = "encode_panicked" /\ checksum /\ split_every = 0 /\ length = 0) => FALSE
    /\ (pc = "decode" /\ checksum /\ split_every = 0 /\ length = 0 /\ text = orig)
           => result = Ok(number)

\* The position at which the string handed to decode differs from the one
\* encode returned (after Flip).
FlippedAt == CHOOSE p \in 1..Len(text) : text[p] # orig[p]

\* C3: after one character of encode(n, 0, 0, true) was replaced by another
\* (one that normalize does not map back to the original), decode(s', true)
\* does not return Ok. Stated for the replacements that normalize keeps: a
\* '-' is removed by normalize, which shortens the string.
C3_FlipNeverDecodes ==
    (/\ pc = "decode" /\ text # orig
     /\ text[FlippedAt] # "-"
     /\ normalize(<<text[FlippedAt]>>) # <<orig[FlippedAt]>>)
        => result.tag # "Ok"

\* (100 * n) mod 97 computed without the 64-bit product, as
\* (100 * (n mod 97)) mod 97.
Times100Mod97(n) == (100 * DivModSmall(n, 97).rem) % 97

\* C4 (as amended): for every n >= 0 for which 100 * n fits in an i64,
\* generate_checksum(n) = 97 - ((100 * n) mod 97) + 1 lies in 2..=98.
C4_ChecksumRange ==
    (pc = "generate_checksum" /\ ~MulOverflows(number, 100))
        => /\ result = Ok(I64FromNat(97 - Times100Mod97(number) + 1))
           /\ \E v \in 2..98 : result = Ok(I64FromNat(v))

\* C4 (as claimed): for every n >= 0 for which 100 * n fits in an i64,
\* generate_checksum(n) lies in 1..=97.
C4_ChecksumRangeAsClaimed ==
    (pc = "generate_checksum" /\ ~MulOverflows(number, 100))
        => \E v \in 1..97 : result = Ok(I64FromNat(v))

\* C4 (witness): generate_checksum(32) returned 2, the least checksum there is
\* ((100 * 32) mod 97 = 96).
C4_Witness ==
    pc = "generate_checksum" /\ number = I64FromNat(32) /\ result = Ok(I64FromNat(2))

\* C5: decode_id returns Ok(number) or Err(message) for every input; it never panics.
C5_DecodeIdTotal ==
    pc = "decode_id" => result.tag \in {"Ok", "Err"}

\* Four groups of four (the last character may be X), separated by '-', by a
\* space, or not at all: 16 characters besides the separators.
IsniShape16 ==
    Rep(Digit, 4, 4) \o Opt({" ", "-"}) \o Rep(Digit, 4, 4) \o Opt({" ", "-"})
    \o Rep(Digit, 4, 4) \o Opt({" ", "-"}) \o Rep(Digit, 3, 3) \o One(Digit \cup {"X"})

\* Whether the string v lies, as a string, in one of the two ranges reserved for ORCID.
InOrcidRanges(v) ==
    \/ StrLe(<<"0", "0", "0", "0", "0", "0", "0", "1", "5", "0", "0", "0", "0", "0", "0", "7">>, v) /\ StrLe(v, <<"0", "0", "0", "0", "0", "0", "0", "3", "5", "0", "0", "0", "0", "0", "0", "1">>)
    \/ StrLe(<<"0", "0", "0", "9", "0", "0", "0", "0", "0", "0", "0", "0", "0", "0", "0", "0">>, v) /\ StrLe(v, <<"0", "0", "0", "9", "0", "0", "1", "0", "0", "0", "0", "0", "0", "0", "0", "0">>)

Unseparated(s) == RemoveChar(RemoveChar(s, " "), "-")

\* C6: validate_id gives the tag ORCID to every 16-character identifier of
\* ISNI shape whose separator-stripped value lies in a range reserved for ORCID.
C6_OrcidRangeIsOrcid ==
    (pc = "validate_id" /\ Matches(id, IsniShape16) /\ InOrcidRanges(Unseparated(id)))
        => identifier_type = "ORCID"

\* C7: validate_isni returns None for every input of ISNI shape whose value,
\* spaces and hyphens removed, lies (as a string) in a range reserved for
\* ORCID, and the captured payload for every other input of ISNI shape.
C7_IsniExcludesOrcidRanges ==
    LET m == Capture(id, IsniWrappers, {IsniPattern})
    IN  (pc = "validate_isni" /\ m.some)
            => IF InOrcidRanges(Unseparated(m.str))
               THEN result.tag = "None"
               ELSE result.tag = "Some" /\ identifier = m.str

\* C7 (witness): validate_isni returned None for 0000000150000008, and there
\* is an input at the very start of the first range.
C7_Witness ==
    /\ pc = "validate_isni"
    /\ id \in {<<"0", "0", "0", "0", "0", "0", "0", "1", "5", "0", "0", "0", "0", "0", "0", "8">>, <<"0", "0", "0", "0", "0", "0", "0", "1", "5", "0", "0", "0", "0", "0", "0", "7">>}
    /\ result.tag = "None"

\* The recognizers in the order of validate_id, each with its tag.
RecognizerOrder ==
    <<"Crossref Funder ID", "DOI", "UUID", "RID", "ORCID", "ROR", "GRID", "Wikidata",
      "ISNI", "ISSN", "URL">>

Recognizes(tag, s) ==
    CASE tag = "Crossref Funder ID" -> validate_crossref_funder_id(s).some
      [] tag = "DOI" -> validate_doi(s).some
      [] tag = "UUID" -> validate_uuid(s).some
      [] tag = "RID" -> validate_rid(s).some
      [] tag = "ORCID" -> validate_orcid(s).some
      [] tag = "ROR" -> validate_ror(s).some
      [] tag = "GRID" -> validate_grid(s).some
      [] tag = "Wikidata" -> validate_wikidata(s).some
      [] tag = "ISNI" -> validate_isni(s).some
      [] tag = "ISSN" -> validate_issn(s).some
      [] tag = "URL" -> validate_url(s) # ""

\* C8: the tag validate_id returns is the tag of the earliest recognizer, in
\* the fixed order, that matches (the empty tag when none does); a string
\* that is both a Crossref Funder ID and a DOI is a Crossref Funder ID.
C8_FirstMatchWins ==
    pc = "validate_id" =>
        /\ \A i \in 1..Len(RecognizerOrder) :
               (/\ Recognizes(RecognizerOrder[i], id)
                /\ \A k \in 1..(i - 1) : ~Recognizes(RecognizerOrder[k], id))
                   => identifier_type = RecognizerOrder[i]
        /\ (\A i \in 1..Len(RecognizerOrder) : ~Recognizes(RecognizerOrder[i], id))
               => identifier_type = ""
        /\ (Recognizes("Crossref Funder ID", id) /\ Recognizes("DOI", id))
               => identifier_type = "Crossref Funder ID"

\* C8 (witness): 10.13039/501100000011, which is a DOI too, was tagged
\* Crossref Funder ID.
C8_Witness ==
    /\ pc = "validate_id"
    /\ id = <<"1", "0", ".", "1", "3", "0", "3", "9", "/", "5", "0", "1", "1", "0", "0", "0", "0", "0", "0", "1", "1">>
    /\ Recognizes("DOI", id)
    /\ identifier_type = "Crossref Funder ID"

\* Whether s is https://api.rogue-scholar.org/posts/{uuid} or
\* https://api.rogue-scholar.org/posts/{doi-prefix}/{doi-suffix}.
IsRogueScholarPost(s) ==
    LET root == <<"h", "t", "t", "p", "s", ":", "/", "/", "a", "p", "i", ".", "r", "o", "g", "u", "e", "-", "s", "c", "h", "o", "l", "a", "r", ".", "o", "r", "g", "/", "p", "o", "s", "t", "s", "/">>
        rest == DropPrefix(s, root)
    IN  /\ StartsWith(s, root)
        /\ \/ validate_uuid(rest).some
           \/ Matches(rest, Lit(<<"1", "0", ".">>) \o Rep(Digit, 4, 5) \o Lit(<<"/">>)
                            \o OneOrMore(Digit \cup Lower \cup Upper \cup {"-", "."}))

\* C9: validate_id gives the tag JSONFEEDID, not URL, to every Rogue Scholar
\* post URL that no earlier recognizer matches.
C9_RoguePostIsJsonFeedId ==
    (/\ pc = "validate_id" /\ IsRogueScholarPost(id)
     /\ \A i \in 1..(Len(RecognizerOrder) - 1) : ~Recognizes(RecognizerOrder[i], id))
        => identifier_type = "JSONFEEDID"

\* C10: for an input classified as DOI, decode_id returns what decode, with
\* checksum, returns for the whole suffix: everything after the first '/' of
\* the canonical DOI.
C10_DoiDecodesWholeSuffix ==
    (pc = "decode_id" /\ identifier_type = "DOI")
        => result = decode(SubSeq(identifier, FirstIndex(identifier, "/") + 1,
                                  Len(identifier)), TRUE)

\* m = ((m + d) * 2) mod 11 over the digits of body, from the first to the last.
RECURSIVE Mod11Of(_)
Mod11Of(body) ==
    IF body = <<>> THEN 0
    ELSE ((Mod11Of(SubSeq(body, 1, Len(body) - 1))
           + IndexOf(DigitSeq, body[Len(body)]) - 1) * 2) % 11

\* The MOD 11-2 check character of a string of digits: (12 - m) mod 11, 10 written X.
CheckCharOf(body) ==
    LET c == (12 - Mod11Of(body)) % 11
    IN  IF c = 10 THEN "X" ELSE DigitSeq[c + 1]

\* The base-10 value of a string of digits.
RECURSIVE DecimalValue(_)
DecimalValue(digits) ==
    IF digits = <<>> THEN I64Zero
    ELSE AddSmall(MulSmall(DecimalValue(SubSeq(digits, 1, Len(digits) - 1)), 10).val,
                  IndexOf(DigitSeq, digits[Len(digits)]) - 1).val

\* C11: for an input classified as ORCID and written with hyphens, decode_id
\* returns Ok(v), v the base-10 value of the hyphen-stripped digits before the
\* final character, exactly when the final character is the MOD 11-2 check
\* character of those digits; otherwise it returns Err.
C11_OrcidDecodesIffMod11 ==
    (pc = "decode_id" /\ identifier_type = "ORCID" /\ ~Contains(identifier, <<" ">>))
        => LET cleaned == RemoveChar(identifier, "-")
               body == SubSeq(cleaned, 1, Len(cleaned) - 1)
           IN  IF /\ \A i \in 1..Len(body) : body[i] \in Digit
                  /\ cleaned[Len(cleaned)] = CheckCharOf(body)
               THEN result = Ok(DecimalValue(body))
               ELSE result.tag = "Err"

\* C12: decode(text, true) returns Err(InvalidChecksumFormat) if and only if
\* the normalized text has fewer than 2 characters or its last two characters
\* are not both decimal digits.
C12_ChecksumFormatIff ==
    (pc = "decode" /\ checksum)
        => LET normalized == normalize(text)
               n == Len(normalized)
           IN  (result.tag = "Err" /\ result.err = "InvalidChecksumFormat")
                   <=> (n < 2 \/ normalized[n - 1] \notin Digit \/ normalized[n] \notin Digit)

\* C13: generate(length, split_every, checksum) panics exactly when checksum
\* is true and length < 3; in every other case it returns a string s, and
\* decode(s, checksum) is Ok(n) for the number n that was drawn.
C13_GeneratePanicsOrRoundTrips ==
    /\ pc = "generate_panicked" => (checksum /\ length < 3)
    /\ pc = "generate" => ~(checksum /\ length < 3)
    /\ pc = "decode_generated" => result = Ok(number)

\* C14: normalize(normalize(s)) = normalize(s).
C14_NormalizeIdempotent ==
    pc = "normalize" => text = orig

\* C14 (witness): normalize was called twice on "I-o", and returned "10" both times.
C14_Witness ==
    /\ pc = "normalize"
    /\ id = <<"I", "-", "o">>
    /\ orig = <<"1", "0">>
    /\ text = <<"1", "0">>

\* C15: validate_id gives a tag that is not empty to every input that no
\* earlier recognizer matches, that parses as a URL of scheme http or https and
\* that holds neither ";origin=" nor ";jsessionid=".
C15_UrlFallback ==
    (/\ pc = "validate_id"
     /\ \A i \in 1..(Len(RecognizerOrder) - 1) : ~Recognizes(RecognizerOrder[i], id)
     /\ ParseUrl(id).ok
     /\ ParseUrl(id).scheme \in {<<"h", "t", "t", "p">>, <<"h", "t", "t", "p", "s">>}
     /\ ~Contains(id, <<";", "o", "r", "i", "g", "i", "n", "=">>)
     /\ ~Contains(id, <<";", "j", "s", "e", "s", "s", "i", "o", "n", "i", "d", "=">>))
        => identifier_type # ""

\* C16: generate(length, 0, true) returns a string of exactly `length`
\* characters for every length >= 3, and generate(10, 5, true), the suffix of
\* encode_doi, is two groups of 5 characters.
C16_GenerateLength ==
    /\ (pc = "generate" /\ checksum /\ split_every = 0 /\ length >= 3)
           => Len(text) = length
    /\ (pc = "generate" /\ checksum /\ split_every = 5 /\ length = 10)
           => /\ Len(text) = 11
              /\ text[6] = "-"
              /\ ~Contains(SubSeq(text, 1, 5) \o SubSeq(text, 7, 11), <<"-">>)

===========================================================================
